---- MODULE Spec2Model ----
(***************************************************************************)
(* Model of the concentration reconstruction engine of beautyboostr.app:   *)
(* engine.estimate_percentages and its caller engine.run_full_analysis.    *)
(*                                                                         *)
(* Percentages are Python floats in the source.  They are modelled as      *)
(* exact rationals <<numerator, denominator>> (denominator > 0, lowest     *)
(* terms), so "equal within a small tolerance" in the source's floats is   *)
(* exact equality here, and every deviation the model shows is a gross     *)
(* one, never a rounding effect.                                           *)
(*                                                                         *)
(* List positions are 0-based as in the source: position i of inci_list is *)
(* the sequence element inci_list[i + 1].                                  *)
(***************************************************************************)
EXTENDS Integers, Sequences, FiniteSets, TLC

(***************************************************************************)
(* Bounds of the model.                                                    *)
(***************************************************************************)
MaxLen == 3
MaxKnown == 2

(***************************************************************************)
(* Exact rational arithmetic.                                              *)
(***************************************************************************)
Abs(n) == IF n < 0 THEN -n ELSE n

RECURSIVE GCD(_, _)
GCD(a, b) == IF b = 0 THEN a ELSE GCD(b, a % b)

Norm(n, d) ==
    LET g == GCD(Abs(n), d) IN <<n \div g, d \div g>>

R(n, d) == Norm(n, d)

Zero == <<0, 1>>
One == <<1, 1>>
Hundred == <<100, 1>>

RNeg(a) == <<-a[1], a[2]>>

RAdd(a, b) ==
    LET g == GCD(a[2], b[2])
    IN  Norm(a[1] * (b[2] \div g) + b[1] * (a[2] \div g), (a[2] \div g) * b[2])

RSub(a, b) == RAdd(a, RNeg(b))

RMul(a, b) ==
    LET g1 == GCD(Abs(a[1]), b[2])
        g2 == GCD(Abs(b[1]), a[2])
    IN  IF a[1] = 0 \/ b[1] = 0 THEN Zero
        ELSE <<(a[1] \div g1) * (b[1] \div g2), (a[2] \div g2) * (b[2] \div g1)>>

RInv(a) == IF a[1] < 0 THEN <<-a[2], -a[1]>> ELSE <<a[2], a[1]>>

RDiv(a, b) == RMul(a, RInv(b))

RLt(a, b) ==
    LET g == GCD(a[2], b[2])
    IN  a[1] * (b[2] \div g) < b[1] * (a[2] \div g)

RLe(a, b) == ~RLt(b, a)

RAbs(a) == <<Abs(a[1]), a[2]>>

RMin(a, b) == IF RLt(b, a) THEN b ELSE a

(***************************************************************************)
(* Python values.                                                          *)
(***************************************************************************)
EmptyDict == [k \in {} |-> Zero]

\* d[k] = v on a dict: an existing key keeps its place, a new key is added.
DictSet(d, k, v) == [x \in (DOMAIN d) \cup {k} |-> IF x = k THEN v ELSE d[x]]

\* d.get(k, default)
DictGet(d, k, default) == IF k \in DOMAIN d THEN d[k] ELSE default

(***************************************************************************)
(* Inputs: the names that may be declared, the names and values the user   *)
(* may give as known percentages, and the configuration tables.            *)
(***************************************************************************)
IngredientNames == {"water", "niacinamide", "niacinamides", "phenoxyethanol"}

KnownNames == {"niacinamide", "phenoxyethanol", "retinol"}

KnownValues == {R(1, 2), R(5, 1), R(90, 1), R(105, 1)}

\* process.extractOne(known_name, [name])[1]: the similarity score (0..100)
\* of the two strings.  Equal strings score 100; "niacinamide" against
\* "niacinamides" scores round(100 * 22 / 23) = 96; unrelated names score
\* far below the threshold.
ExtractOneScore(known_name, name) ==
    IF known_name = name THEN 100
    ELSE IF {known_name, name} = {"niacinamide", "niacinamides"} THEN 96
    ELSE 30

MatchThreshold == 95

Matches(known_name, name) == ExtractOneScore(known_name, name) > MatchThreshold

\* all_data["one_percent_markers"]["markers"]
one_percent_markers == {"phenoxyethanol"}

\* profile_key, as get_product_profile returns it
profile_key == "Hydrating Serum"

\* all_data["usage_ranges"]: per ingredient, a range per profile key and/or a
\* "default" range.
usage_ranges ==
    ("phenoxyethanol" :> ("default" :> <<R(1, 2), R(1, 1)>>))
    @@ ("niacinamide" :> (("Hydrating Serum" :> <<R(2, 1), R(5, 1)>>)
                          @@ ("default" :> <<R(1, 1), R(3, 1)>>)))

\* the fallback range [0.05, 0.5] of line 170
DefaultUsageRange == <<R(1, 20), R(1, 2)>>

\* the fallback base range [50, 80] of line 176
DefaultBaseRange == <<R(50, 1), R(80, 1)>>

\* the profiles get_product_profile may hand over: one without a
\* base_solvent_range, one with the range (60, 80)
Profiles == {EmptyDict, "base_solvent_range" :> <<R(60, 1), R(80, 1)>>}

RECURSIVE SeqsUpTo(_, _)
SeqsUpTo(S, n) ==
    IF n = 0 THEN {<<>>}
    ELSE LET shorter == SeqsUpTo(S, n - 1)
         IN  shorter \cup {Append(s, x) : s \in {t \in shorter : Len(t) = n - 1}, x \in S}

\* the lists run_full_analysis can hand over after pre-processing: the
\* lists of pairwise distinct names, and the short lists that declare a name
\* more than once.  (Every further slot before the first anchor compounds
\* the adjustment of lines 215-217 of a repeated name once more; on longer
\* lists the exact value no longer fits the model checker's integers.)
DistinctLists ==
    {s \in SeqsUpTo(IngredientNames, MaxLen) :
        \A i, j \in 1..Len(s) : i # j => s[i] # s[j]}

RepeatingLists ==
    UNION {{<<a, a>>, <<a, a, b>>, <<a, b, a>>, <<b, a, a>>} :
              a \in IngredientNames, b \in IngredientNames}

InciLists == DistinctLists \cup RepeatingLists

\* the dicts parse_known_percentages can return, in insertion order:
\* every key occurs once
KnownDicts ==
    {s \in SeqsUpTo([name : KnownNames, perc : KnownValues], MaxKnown) :
        \A i, j \in 1..Len(s) : i # j => s[i].name # s[j].name}

VARIABLES
    inci_list,              \* the declared list
    known_percentages,      \* the parsed known percentages, in dict order
    profile,                \* the product profile
    pc,                     \* position inside estimate_percentages / the caller
    percentages,            \* dict name -> percentage
    known_ingredients_map,  \* dict name -> [perc, index]
    placed,                 \* history: the (index, known entry) pairs placed at lines 155-158
    one_percent_line_index,
    start_perc,             \* the synthetic start anchor's value (line 176)
    adjustment,             \* 100 - current_total (line 197)
    raised,                 \* <<e>> once the ValueError e is raised, else <<>>
    result,                 \* the list estimate_percentages returns (set at the return)
    ret                     \* what run_full_analysis returns; "running" before

vars == <<inci_list, known_percentages, profile, pc, percentages,
          known_ingredients_map, placed, one_percent_line_index, start_perc,
          adjustment, raised, result, ret>>

inputs == <<inci_list, known_percentages, profile>>

At(i) == inci_list[i + 1]

Positions == 0..(Len(inci_list) - 1)

NameSet == {inci_list[i] : i \in 1..Len(inci_list)}

Init ==
    /\ inci_list \in InciLists
    /\ known_percentages \in KnownDicts
    /\ profile \in Profiles
    /\ pc = "call"
    /\ percentages = EmptyDict
    /\ known_ingredients_map = EmptyDict
    /\ placed = {}
    /\ one_percent_line_index = -1
    /\ start_perc = Zero
    /\ adjustment = Zero
    /\ raised = <<>>
    /\ result = <<>>
    /\ ret = "running"

(***************************************************************************)
(* Step 1 (lines 142-159): place the known percentages and validate their  *)
(* order.                                                                  *)
(***************************************************************************)
\* the first entry of known_percentages, in dict order, that matches name
\* (0 if none): the inner loop of lines 149-159 stops at it
FirstMatch(name) ==
    LET ks == {k \in 1..Len(known_percentages) : Matches(known_percentages[k].name, name)}
    IN  IF ks = {} THEN 0 ELSE CHOOSE k \in ks : \A m \in ks : k <= m

\* line 152: the name known_ingredients_map holds for the last placed index
PrevKnownName(kmap, last_known_idx) ==
    IF \E n \in DOMAIN kmap : kmap[n].index = last_known_idx
    THEN CHOOSE n \in DOMAIN kmap : kmap[n].index = last_known_idx
    ELSE "Ingredient at position"

InitialLastKnownPerc == R(101, 1)

\* a variant of line 151 that compares with >= instead of >
ViolatesOrderOnEqual(known_perc, last_known_perc) == RLe(last_known_perc, known_perc)

\* line 151: known_perc > last_known_perc
ViolatesOrder(known_perc, last_known_perc) == RLt(last_known_perc, known_perc)

RECURSIVE PlaceAnchors(_, _)
PlaceAnchors(i, st) ==
    IF i >= Len(inci_list) THEN st
    ELSE LET name == At(i)
             k == FirstMatch(name)
         IN  IF k = 0 THEN PlaceAnchors(i + 1, st)
             ELSE LET known_perc == known_percentages[k].perc
                  IN  IF ViolatesOrder(known_perc, st.last_known_perc)
                      THEN [st EXCEPT !.raised =
                               <<[prev_name |-> PrevKnownName(st.known_ingredients_map, st.last_known_idx),
                                prev_perc |-> st.last_known_perc,
                                name |-> name,
                                perc |-> known_perc]>>]
                      ELSE PlaceAnchors(i + 1,
                               [st EXCEPT
                                   !.percentages = DictSet(@, name, known_perc),
                                   !.known_ingredients_map =
                                       DictSet(@, name, [perc |-> known_perc, index |-> i]),
                                   !.placed = @ \cup {[index |-> i, known |-> k, perc |-> known_perc]},
                                   !.last_known_perc = known_perc,
                                   !.last_known_idx = i])

Step1Result ==
    PlaceAnchors(0, [percentages |-> [n \in NameSet |-> Zero],
                     known_ingredients_map |-> EmptyDict,
                     placed |-> {},
                     last_known_perc |-> InitialLastKnownPerc,
                     last_known_idx |-> -1,
                     raised |-> <<>>])

\* the loop ran to its end: the anchors are placed
ValidateAnchors ==
    /\ pc = "call"
    /\ Step1Result.raised = <<>>
    /\ percentages' = Step1Result.percentages
    /\ known_ingredients_map' = Step1Result.known_ingredients_map
    /\ placed' = Step1Result.placed
    /\ pc' = "step2"
    /\ UNCHANGED <<inputs, one_percent_line_index, start_perc, adjustment, raised, result, ret>>

\* line 153: the loop raised ValueError
RaiseOrderViolation ==
    /\ pc = "call"
    /\ Step1Result.raised # <<>>
    /\ raised' = Step1Result.raised
    /\ percentages' = Step1Result.percentages
    /\ known_ingredients_map' = Step1Result.known_ingredients_map
    /\ placed' = Step1Result.placed
    /\ pc' = "raised"
    /\ UNCHANGED <<inputs, one_percent_line_index, start_perc, adjustment, result, ret>>

(***************************************************************************)
(* Step 2 (lines 161-172): the one-percent line and the zone below it.     *)
(***************************************************************************)
SetMin(S) == CHOOSE x \in S : \A y \in S : x <= y

SetMax(S) == CHOOSE x \in S : \A y \in S : x >= y

\* a variant of line 164 without the test "ing not in known_ingredients_map"
OnePercentLineIndexAnyMarker(kmap) ==
    LET marked == {i \in Positions : At(i) \in one_percent_markers}
    IN  IF marked = {} THEN Len(inci_list) ELSE SetMin(marked)

\* line 164
OnePercentLineIndex(kmap) ==
    LET marked == {i \in Positions : At(i) \in one_percent_markers /\ At(i) \notin DOMAIN kmap}
    IN  IF marked = {} THEN Len(inci_list) ELSE SetMin(marked)

\* lines 169-171: the midpoint of the usage range, capped at 1.0
AssignedPerc(ing) ==
    LET ing_ranges == DictGet(usage_ranges, ing, EmptyDict)
        perc_range == DictGet(ing_ranges, profile_key,
                              DictGet(ing_ranges, "default", DefaultUsageRange))
    IN  RMin(RDiv(RAdd(perc_range[1], perc_range[2]), R(2, 1)), One)

\* a variant of lines 166-172 without the test of line 168
RECURSIVE PopulateSubLineOverwriting(_, _, _)
PopulateSubLineOverwriting(i, percs, kmap) ==
    IF i >= Len(inci_list) THEN percs
    ELSE PopulateSubLineOverwriting(i + 1, DictSet(percs, At(i), AssignedPerc(At(i))), kmap)

\* lines 166-172, from position i on
RECURSIVE PopulateSubLine(_, _, _)
PopulateSubLine(i, percs, kmap) ==
    IF i >= Len(inci_list) THEN percs
    ELSE PopulateSubLine(i + 1,
                         IF At(i) \notin DOMAIN kmap
                         THEN DictSet(percs, At(i), AssignedPerc(At(i)))
                         ELSE percs,
                         kmap)

SubLineZone ==
    /\ pc = "step2"
    /\ one_percent_line_index' = OnePercentLineIndex(known_ingredients_map)
    /\ percentages' = PopulateSubLine(OnePercentLineIndex(known_ingredients_map),
                                      percentages, known_ingredients_map)
    /\ pc' = "step3"
    /\ UNCHANGED <<inputs, known_ingredients_map, placed, start_perc, adjustment,
                   raised, result, ret>>

(***************************************************************************)
(* Step 3 (lines 174-193): interpolation above the line.                   *)
(***************************************************************************)
\* a variant of line 176 that takes the upper end of the range
StartPercUpper(prof) == DictGet(prof, "base_solvent_range", DefaultBaseRange)[2]

\* line 176
StartPerc(prof) == DictGet(prof, "base_solvent_range", DefaultBaseRange)[1]

\* lines 175-178: the anchors, as a dict index -> perc; of two anchors with
\* one index the later of [start] + anchors_above_1 + [end] stays
AllAnchors(kmap, line, sp) ==
    LET above == {n \in DOMAIN kmap : kmap[n].index < line}
        idxs == {-1} \cup {kmap[n].index : n \in above} \cup {line}
    IN  [idx \in idxs |->
            IF idx = line THEN One
            ELSE IF \E n \in above : kmap[n].index = idx
                 THEN kmap[CHOOSE n \in above : kmap[n].index = idx].perc
                 ELSE sp]

\* line 193, for the slot at ing_index of the segment from start_index to
\* end_index
InterpolatedPerc(anchors, start_index, end_index, ing_index) ==
    LET num_ingredients_in_segment == end_index - start_index - 1
        step_size == RDiv(RSub(anchors[start_index], anchors[end_index]),
                          R(num_ingredients_in_segment + 1, 1))
        j == ing_index - start_index - 1
    IN  RSub(anchors[start_index], RMul(step_size, R(j + 1, 1)))

\* lines 180-193: the segments in index order, their slots in order; the
\* slots between the anchors' indices, from position i on
RECURSIVE Interpolation(_, _, _, _)
Interpolation(i, percs, kmap, anchors) ==
    IF i >= SetMax(DOMAIN anchors) THEN percs
    ELSE IF i \in DOMAIN anchors \/ At(i) \in DOMAIN kmap
         THEN Interpolation(i + 1, percs, kmap, anchors)
         ELSE LET start_index == SetMax({a \in DOMAIN anchors : a < i})
                  end_index == SetMin({a \in DOMAIN anchors : a > i})
              IN  Interpolation(i + 1,
                      DictSet(percs, At(i),
                              InterpolatedPerc(anchors, start_index, end_index, i)),
                      kmap, anchors)

Interpolate ==
    /\ pc = "step3"
    /\ start_perc' = StartPerc(profile)
    /\ percentages' = Interpolation(0, percentages, known_ingredients_map,
                          AllAnchors(known_ingredients_map, one_percent_line_index,
                                     StartPerc(profile)))
    /\ pc' = "step4"
    /\ UNCHANGED <<inputs, known_ingredients_map, placed, one_percent_line_index,
                   adjustment, raised, result, ret>>

(***************************************************************************)
(* Step 4 (lines 195-223): the final adjustment.                           *)
(***************************************************************************)
\* sum(percentages.values())
RECURSIVE SumValues(_)
SumValues(d) ==
    IF DOMAIN d = {} THEN Zero
    ELSE LET k == CHOOSE x \in DOMAIN d : TRUE
         IN  RAdd(d[k], SumValues([x \in (DOMAIN d) \ {k} |-> d[x]]))

\* lines 200-202
FirstAnchorIndex(kmap) ==
    IF DOMAIN kmap = {} THEN Len(inci_list)
    ELSE SetMin({kmap[n].index : n \in DOMAIN kmap})

\* lines 205-208: the names to adjust, one per position
IngredientsToAdjust(kmap) ==
    SelectSeq(SubSeq(inci_list, 1, FirstAnchorIndex(kmap)),
              LAMBDA name : name \notin DOMAIN kmap)

\* line 211
RECURSIVE BlockSum(_, _)
BlockSum(names, percs) ==
    IF names = <<>> THEN Zero
    ELSE RAdd(percs[Head(names)], BlockSum(Tail(names), percs))

\* lines 215-217: one name after the other, each on the current value
RECURSIVE DistributeProportionally(_, _, _, _)
DistributeProportionally(names, percs, block_sum, adj) ==
    IF names = <<>> THEN percs
    ELSE LET name == Head(names)
             proportion == RDiv(percs[name], block_sum)
         IN  DistributeProportionally(Tail(names),
                 DictSet(percs, name, RAdd(percs[name], RMul(adj, proportion))),
                 block_sum, adj)

\* a variant of lines 221-223 without the test of line 222
AdjustFirstNonAnchorUnguarded(percs, kmap, adj) ==
    LET free == {i \in Positions : At(i) \notin DOMAIN kmap}
        first_non_anchor_ingredient == IF free = {} THEN "None" ELSE At(SetMin(free))
    IN  DictSet(percs, first_non_anchor_ingredient,
                RAdd(DictGet(percs, first_non_anchor_ingredient, Zero), adj))

\* lines 221-223: the whole adjustment on the first name that is no anchor
AdjustFirstNonAnchor(percs, kmap, adj) ==
    LET free == {i \in Positions : At(i) \notin DOMAIN kmap}
    IN  IF free = {} THEN percs
        ELSE LET first_non_anchor_ingredient == At(SetMin(free))
             IN  DictSet(percs, first_non_anchor_ingredient,
                         RAdd(percs[first_non_anchor_ingredient], adj))

\* lines 196-223
Adjusted(percs, kmap) ==
    LET adj == RSub(Hundred, SumValues(percs))
        ingredients_to_adjust == IngredientsToAdjust(kmap)
        block_sum == BlockSum(ingredients_to_adjust, percs)
    IN  IF RLt(Zero, block_sum)
        THEN DistributeProportionally(ingredients_to_adjust, percs, block_sum, adj)
        ELSE IF adj # Zero
             THEN AdjustFirstNonAnchor(percs, kmap, adj)
             ELSE percs

FinalAdjustment ==
    /\ pc = "step4"
    /\ adjustment' = RSub(Hundred, SumValues(percentages))
    /\ percentages' = Adjusted(percentages, known_ingredients_map)
    /\ pc' = "return"
    /\ UNCHANGED <<inputs, known_ingredients_map, placed, one_percent_line_index,
                   start_perc, raised, result, ret>>

(***************************************************************************)
(* Lines 226-228: the returned list, one entry per key of the dict, in the *)
(* dict's order (the order of the names' first occurrences).               *)
(***************************************************************************)
RECURSIVE ResultList(_, _)
ResultList(i, percs) ==
    IF i >= Len(inci_list) THEN <<>>
    ELSE IF \E h \in 0..(i - 1) : At(h) = At(i)
         THEN ResultList(i + 1, percs)
         ELSE <<[name |-> At(i), estimated_percentage |-> percs[At(i)]]>>
              \o ResultList(i + 1, percs)

Return ==
    /\ pc = "return"
    /\ result' = ResultList(0, percentages)
    /\ pc' = "returned"
    /\ UNCHANGED <<inputs, percentages, known_ingredients_map, placed,
                   one_percent_line_index, start_perc, adjustment, raised, ret>>

(***************************************************************************)
(* run_full_analysis: lines 86-95 go on with the returned list; lines      *)
(* 97-99 catch the ValueError and return None for every output.            *)
(***************************************************************************)
RunReturnsAnalysis ==
    /\ pc = "returned"
    /\ ret' = "analysis"
    /\ pc' = "done"
    /\ UNCHANGED <<inputs, percentages, known_ingredients_map, placed,
                   one_percent_line_index, start_perc, adjustment, raised, result>>

RunReturnsNone ==
    /\ pc = "raised"
    /\ ret' = "None"
    /\ pc' = "done"
    /\ UNCHANGED <<inputs, percentages, known_ingredients_map, placed,
                   one_percent_line_index, start_perc, adjustment, raised, result>>

(***************************************************************************)
(* The properties.                                                         *)
(***************************************************************************)
\* estimate_percentages has returned its list
Returned == pc = "returned" \/ (pc = "done" /\ ret = "analysis")

\* the percentage the returned list holds for position i: the entry of the
\* name declared there
ResultAt(i) ==
    result[CHOOSE k \in 1..Len(result) : result[k].name = At(i)].estimated_percentage

RECURSIVE ResultSum(_)
ResultSum(res) ==
    IF res = <<>> THEN Zero
    ELSE RAdd(Head(res).estimated_percentage, ResultSum(Tail(res)))

RECURSIVE KnownSum(_)
KnownSum(known) ==
    IF known = <<>> THEN Zero ELSE RAdd(Head(known).perc, KnownSum(Tail(known)))

\* the positions a known percentage matches, and the value supplied for them
MatchedPositions ==
    {i \in Positions : \E k \in 1..Len(known_percentages) :
                           Matches(known_percentages[k].name, At(i))}

SuppliedPerc(i) == known_percentages[FirstMatch(At(i))].perc

HasEarlierMatch(j) == \E i \in MatchedPositions : i < j

PrevMatched(j) == SetMax({i \in MatchedPositions : i < j})

\* the later anchor of a pair of neighbouring anchors is strictly higher
OrderViolations ==
    {j \in MatchedPositions :
        HasEarlierMatch(j) /\ RLt(SuppliedPerc(PrevMatched(j)), SuppliedPerc(j))}

\* a first anchor above 101
AboveSentinel ==
    {j \in MatchedPositions : ~HasEarlierMatch(j) /\ RLt(R(101, 1), SuppliedPerc(j))}

\* the error that names position j and the anchor before it
PairError(j) ==
    [name |-> At(j),
     perc |-> SuppliedPerc(j),
     prev_name |-> IF HasEarlierMatch(j) THEN At(PrevMatched(j)) ELSE "Ingredient at position",
     prev_perc |-> IF HasEarlierMatch(j) THEN SuppliedPerc(PrevMatched(j)) ELSE R(101, 1)]

\* some slot of the list is no anchor
SomeSlotFree == \E i \in Positions : At(i) \notin DOMAIN known_ingredients_map

\* C1: for a non-empty list whose anchors are accepted, the returned
\* percentages sum to 100.  (Stated for the lists that leave a slot without
\* an anchor: only there can a residual be placed at all.)
SumInvariant ==
    (Returned /\ SomeSlotFree) => ResultSum(result) = Hundred

\* C2: every known percentage placed on a slot is the percentage returned
\* for that slot's position, and no step after the placement (sub-line
\* population, interpolation, final adjustment) changes it on the way.
AnchorImmutability ==
    /\ pc \in {"step2", "step3", "step4", "return", "returned"} =>
           \A a \in placed : percentages[At(a.index)] = known_percentages[a.known].perc
    /\ Returned =>
           \A a \in placed : ResultAt(a.index) = known_percentages[a.known].perc

\* C2 witness: a list is returned that has an anchor above the line and one
\* below it, and a non-zero residual was redistributed.
AnchorImmutabilityWitness ==
    /\ Returned
    /\ adjustment # Zero
    /\ \E a, b \in placed : a.index < one_percent_line_index /\ b.index > one_percent_line_index

RECURSIVE SumOver(_, _)
SumOver(S, f) ==
    IF S = {} THEN Zero
    ELSE LET x == CHOOSE y \in S : TRUE IN RAdd(f[x], SumOver(S \ {x}, f))

\* the sum of the anchored slots' values, one per anchored position
AnchoredSum == SumOver(MatchedPositions, [i \in MatchedPositions |-> SuppliedPerc(i)])

\* C3: every returned percentage is >= 0.  (Stated for anchors that sum to
\* at most 100, the requests C6 does not reject.)
NonNegativity ==
    (Returned /\ RLe(AnchoredSum, Hundred) /\ RLe(KnownSum(known_percentages), Hundred)) =>
        \A k \in 1..Len(result) : RLe(Zero, result[k].estimated_percentage)

\* C4: in the returned list every slot at or after the one-percent line
\* holds at most 1.0.  (Stated for the lists with a slot above the line that
\* is no anchor and with no anchor at or after the line: there the cap, the
\* anchors and the sum of 100 can all be met.)
SubLineCap ==
    (/\ Returned
     /\ \E i \in Positions : i < one_percent_line_index /\ At(i) \notin DOMAIN known_ingredients_map
     /\ \A i \in Positions : i >= one_percent_line_index => At(i) \notin DOMAIN known_ingredients_map) =>
        \A i \in Positions : i >= one_percent_line_index => RLe(ResultAt(i), One)

AllResolved ==
    \A k \in 1..Len(known_percentages) :
        \E i \in Positions : Matches(known_percentages[k].name, At(i))

\* C6: when the known percentages sum to more than 100, the request fails
\* and no percentages are returned.  (Stated for
\* known percentages that all match a slot.)
AnchorOverflowRejection ==
    (AllResolved /\ RLt(Hundred, KnownSum(known_percentages))) => ~Returned

\* C7: when a known percentage matches no slot of the list, the request is
\* rejected: nothing is returned.  (Stated for non-empty lists.)
UnresolvedAnchorRejection ==
    (Len(inci_list) > 0 /\ ~AllResolved) => ~Returned

\* C8: the returned list has one entry per position of the input list.
OneEntryPerPosition ==
    Returned => Len(result) = Len(inci_list)

\* the base range of the profile, and the candidates a bisection over it
\* tries in its first two rounds
BaseRange(prof) ==
    IF "base_solvent_range" \in DOMAIN prof THEN prof["base_solvent_range"]
    ELSE <<R(50, 1), R(80, 1)>>

Mid(a, b) == RDiv(RAdd(a, b), R(2, 1))

BisectionCandidates(prof) ==
    LET lo == BaseRange(prof)[1]
        hi == BaseRange(prof)[2]
    IN  {Mid(lo, hi), Mid(lo, Mid(lo, hi)), Mid(Mid(lo, hi), hi)}

\* the sum of all percentages when the interpolation runs with candidate c
SumWithCandidate(c) ==
    SumValues(Interpolation(0, percentages, known_ingredients_map,
                  AllAnchors(known_ingredients_map, one_percent_line_index, c)))

FirstBound ==
    SetMin({known_ingredients_map[n].index : n \in DOMAIN known_ingredients_map}
           \cup {one_percent_line_index})

FirstBoundPerc ==
    IF FirstBound = one_percent_line_index THEN One
    ELSE known_ingredients_map[CHOOSE n \in DOMAIN known_ingredients_map :
                                   known_ingredients_map[n].index = FirstBound].perc

\* position 0 is interpolated in the first segment and its name is not
\* written again
FirstSlotInterpolated ==
    /\ FirstBound >= 1
    /\ At(0) \notin DOMAIN known_ingredients_map
    /\ \A i \in 1..(one_percent_line_index - 1) : At(i) # At(0)

EmptyInput ==
    Len(inci_list) = 0 =>
        /\ raised = <<>>
        /\ pc # "raised"
        /\ DOMAIN percentages = {}
        /\ result = <<>>
        /\ pc = "done" => ret = "analysis"

\* C10 witness: the empty list went through with known percentages given,
\* and the residual of 100 was applied to no slot.
EmptyInputWitness ==
    /\ pc = "done"
    /\ ret = "analysis"
    /\ Len(inci_list) = 0
    /\ Len(known_percentages) > 0
    /\ adjustment = Hundred
    /\ result = <<>>

\* estimate_percentages is past step 2
LineLocated == pc \in {"step3", "step4", "return", "returned"} \/ Returned

\* the positions that are no anchor and declare a marker
FreeMarkerPositions ==
    {i \in Positions : At(i) \in one_percent_markers /\ i \notin MatchedPositions}

\* C11: the line index is the position of the first slot that is no anchor
\* and whose name is a marker; a marker that is an anchor does not set it;
\* without such a slot the line index is the length of the list, and step 2
\* populates no slot that is no anchor.
OnePercentLineLocation ==
    /\ LineLocated =>
           one_percent_line_index =
               IF FreeMarkerPositions = {} THEN Len(inci_list)
               ELSE SetMin(FreeMarkerPositions)
    /\ (pc = "step3" /\ FreeMarkerPositions = {}) =>
           \A i \in Positions : i \notin MatchedPositions => percentages[At(i)] = Zero

\* C11 witness: step 2 has run on a list that declares a marker which is an
\* anchor, followed by a slot that is no anchor, and the line is at the end.
OnePercentLineWitness ==
    /\ pc = "step3"
    /\ one_percent_line_index = Len(inci_list)
    /\ \E i, j \in Positions :
           /\ i < j
           /\ At(i) \in one_percent_markers
           /\ i \in MatchedPositions
           /\ j \notin MatchedPositions

\* the names of the list are pairwise distinct
DistinctNames == \A i, j \in Positions : i # j => At(i) # At(j)

\* the least and the most a slot can hold in a non-increasing assignment
\* that keeps the anchors: the value of the next anchor at or after it (0
\* without one), and the value of the last anchor at or before it
LeastAt(i) ==
    LET later == {m \in MatchedPositions : m >= i}
    IN  IF later = {} THEN Zero ELSE SuppliedPerc(SetMin(later))

MostAt(i) == SuppliedPerc(SetMax({m \in MatchedPositions : m <= i}))

\* the anchors admit a non-increasing assignment that sums to 100
FeasibleAnchors ==
    /\ RLe(SumOver(Positions, [i \in Positions |-> LeastAt(i)]), Hundred)
    /\ 0 \in MatchedPositions =>
           RLe(Hundred, SumOver(Positions, [i \in Positions |-> MostAt(i)]))

\* the bounds of the segments: the synthetic start, the anchors above the
\* line, the synthetic end at the line
SegmentBounds ==
    {-1} \cup {i \in MatchedPositions : i < one_percent_line_index}
         \cup {one_percent_line_index}

BoundPerc(a) ==
    IF a = -1 THEN start_perc
    ELSE IF a = one_percent_line_index THEN One
    ELSE SuppliedPerc(a)

LeftBound(i) == SetMax({a \in SegmentBounds : a < i})

RightBound(i) == SetMin({a \in SegmentBounds : a > i})

\* the value of the arithmetic progression of i's segment at position i
ProgressionValue(i) ==
    LET sp == BoundPerc(LeftBound(i))
        ep == BoundPerc(RightBound(i))
        n == RightBound(i) - LeftBound(i) - 1
    IN  RSub(sp, RMul(R(i - LeftBound(i), 1), RDiv(RSub(sp, ep), R(n + 1, 1))))

\* the slots the interpolation fills
InterpolatedPositions ==
    {i \in Positions : i < one_percent_line_index /\ i \notin MatchedPositions}

\* C12: after the interpolation every slot between two consecutive bounds
\* holds the value of the arithmetic progression with step
\* (start - end) / (n + 1), and the progression is strictly decreasing: the
\* value lies strictly between the two bounds.  (Stated for pairwise
\* distinct names and anchors that admit a non-increasing assignment.)
SegmentInterpolation ==
    (pc = "step4" /\ DistinctNames /\ FeasibleAnchors) =>
        \A i \in InterpolatedPositions :
            /\ percentages[At(i)] = ProgressionValue(i)
            /\ RLt(percentages[At(i)], BoundPerc(LeftBound(i)))
            /\ RLt(BoundPerc(RightBound(i)), percentages[At(i)])

\* the free prefix: the slots that are no anchor and lie before every anchor
FreePrefix ==
    {i \in Positions : i \notin MatchedPositions /\ \A m \in MatchedPositions : i < m}

FreePrefixTotal == SumOver(FreePrefix, [i \in FreePrefix |-> percentages[At(i)]])

\* the slots that are no anchor
FreePositions == {i \in Positions : i \notin MatchedPositions}

\* what the final adjustment makes of the percentages, as C13 has it
Redistributed ==
    LET r == RSub(Hundred, SumValues(percentages))
    IN  IF RLt(Zero, FreePrefixTotal)
        THEN \A i \in Positions :
                 percentages'[At(i)] =
                     IF i \in FreePrefix
                     THEN RAdd(percentages[At(i)],
                               RMul(r, RDiv(percentages[At(i)], FreePrefixTotal)))
                     ELSE percentages[At(i)]
        ELSE \A i \in Positions :
                 percentages'[At(i)] =
                     IF FreePositions # {} /\ i = SetMin(FreePositions)
                     THEN RAdd(percentages[At(i)], r)
                     ELSE percentages[At(i)]

\* C13: with residual r = 100 - sum and free prefix F, if total(F) > 0 the
\* final adjustment leaves every slot s of F with p(s) + r * p(s) / total(F)
\* and every other slot unchanged; otherwise it adds r to the first slot
\* that is no anchor and leaves every other slot unchanged.
ResidualRedistribution == [][pc = "step4" => Redistributed]_vars

\* the anchors are placed: step 1 ran to its end
AnchorsPlaced == pc \in {"step2", "step3", "step4", "return", "returned"} \/ Returned

\* the slots known entry k is attached to
SlotsOf(k) == {a.index : a \in {b \in placed : b.known = k}}

\* the positions known entry k matches
MatchingPositions(k) ==
    {i \in Positions : Matches(known_percentages[k].name, At(i))}

\* C14: every known entry that matches a slot is attached to exactly one
\* slot, the first one that matches it, and never to two; a slot is the
\* anchor of at most one entry.
AnchorAttachment ==
    AnchorsPlaced =>
        /\ \A k \in 1..Len(known_percentages) :
               MatchingPositions(k) # {} => SlotsOf(k) = {SetMin(MatchingPositions(k))}
        /\ \A a, b \in placed : a.index = b.index => a.known = b.known

\* C15: for an accepted list of pairwise distinct names the returned
\* percentages are non-increasing over the positions above the one-percent
\* line.  (Stated for anchors that admit a non-increasing assignment that
\* sums to 100.)
DescendingOutputOrder ==
    (Returned /\ DistinctNames /\ FeasibleAnchors) =>
        \A i \in Positions :
            i + 1 < one_percent_line_index => RLe(ResultAt(i + 1), ResultAt(i))

Next ==
    \/ ValidateAnchors
    \/ RaiseOrderViolation
    \/ SubLineZone
    \/ Interpolate
    \/ FinalAdjustment
    \/ Return
    \/ RunReturnsAnalysis
    \/ RunReturnsNone

Spec == Init /\ [][Next]_vars
====
